---- MODULE Spec2Model ----
(***************************************************************************)
(* Model of the Telegram relay plugin, src/plugins/telegram.py.            *)
(*                                                                         *)
(* Threads of the program:                                                 *)
(*   - the host thread, which runs setup() and later teardown();           *)
(*   - the bot thread started by setup(), which runs start_telegram_bot()  *)
(*     and then on_telegram_message() for one update at a time;            *)
(*   - the cleanup thread started by start_cleanup_timer();                *)
(*   - the local network's thread, which calls the PRIVMSG hook            *)
(*     on_irc_privmsg().                                                   *)
(* The threads share the module globals telegram_users and bridge_map and  *)
(* the attributes of irc without any lock; every access to shared state    *)
(* and every call into the local network is one step of its thread.        *)
(***************************************************************************)
EXTENDS Integers, Sequences, FiniteSets, TLC

\* ------------------------------------------------------------ bounds
MaxTime == 3       \* the clock advances from 0 to MaxTime
MaxHandles == 3    \* irc.create_user is called at most MaxHandles times
MaxBridges == 2    \* longest cfg["bridges"] list drawn for the routing runs
MaxNick == 10      \* largest limits.nick_max drawn for the naming runs
MaxText == 3       \* largest limits.message_max drawn for the truncation runs

\* ------------------------------------------------------ configuration
\* cfg["identity"]["ident"], cfg["identity"]["host"], and the ident of a
\* native local user.
RelayIdent == "tg"
RelayHost == "telegram.bridge"
NativeIdent == "user"
Idents == {RelayIdent, NativeIdent}

Channels == {"#a", "#b"}
Participants == {1, 2}
Nicks == {"bob"}
Texts == {"hi"}

\* A configured chat id is an integer or a string (both are accepted in the
\* configuration); an inbound msg.chat_id is an integer.
IntId(n) == [kind |-> "int", n |-> n, s |-> ""]
StrId(s) == [kind |-> "str", n |-> 0, s |-> s]
ConfigChatIds == {IntId(1), IntId(2), StrId("1")}
InboundChatIds == {1, 2, 3}

Digit(d) == SubSeq("0123456789", d + 1, d + 1)

RECURSIVE Dec(_)
\* str() of a non-negative integer.
Dec(n) == IF n < 10 THEN Digit(n) ELSE Dec(n \div 10) \o Digit(n % 10)

\* str(chat_id), as used at lines 79 and 206.
Str(c) == IF c.kind = "int" THEN Dec(c.n) ELSE c.s

Bridge(c, ch) == [telegram |-> [chat_id |-> c], irc |-> [channel |-> ch]]
BridgeEntries == {Bridge(c, ch) : c \in ConfigChatIds, ch \in Channels}

SeqsUpTo(S, n) == UNION {[1..k -> S] : k \in 1..n}

\* cfg: bridges, cleanup.idle_timeout, identity.suffix, limits.nick_max and
\* limits.message_max.
Config(bridges, idle_timeout, nick_max, message_max) ==
    [bridges |-> bridges, idle_timeout |-> idle_timeout, suffix |-> "tg",
     nick_max |-> nick_max, message_max |-> message_max]

TwoBridges == <<Bridge(IntId(1), "#a"), Bridge(IntId(2), "#b")>>

\* The configurations of the concurrency runs: two bridges, idle cleanup on.
LiveConfigs == {Config(TwoBridges, 1, 30, 400)}

\* The configurations of the routing runs: every bridge list up to
\* MaxBridges entries, idle cleanup off (line 57 then starts no cleanup).
RouteConfigs ==
    {Config(b, 0, 30, 400) : b \in SeqsUpTo(BridgeEntries, MaxBridges)}

\* The configurations of the naming runs: every limits.nick_max up to the
\* longest nick the profiles below produce.
NickConfigs == {Config(TwoBridges, 0, n, 400) : n \in 1..MaxNick}

\* The configurations of the truncation runs: limits.message_max below, at
\* and above the length of the texts.
TextConfigs == {Config(TwoBridges, 0, 30, m) : m \in 1..MaxText}

\* A remote profile: id, username, first_name, last_name. A field that is
\* None is the empty string: lines 155 and 158 treat both alike.
Profile(id, username, first_name, last_name) ==
    [id |-> id, username |-> username, first_name |-> first_name,
     last_name |-> last_name]

\* "*" stands for any character outside the nickname alphabet (an emoji).
Usernames == {"", "al", "**"}
FirstNames == {"", "A l", " *"}
LastNames == {"", "Bo"}

\* The profiles of the concurrency and routing runs.
PlainProfiles == [p \in Participants |-> Profile(p, "", "", "")]

\* Every assignment of profiles to the participants.
AllProfiles ==
    {[p \in Participants |-> Profile(p, u[p], f[p], l[p])] :
        u \in [Participants -> Usernames], f \in [Participants -> FirstNames],
        l \in [Participants -> LastNames]}

\* ------------------------------------------------------------- state
VARIABLES
    cfg,             \* irc.telegram_cfg (the enabled plugin configuration)
    remote,          \* the remote network: tg id -> profile (msg.from_user)
    clock,           \* time.time()
    bridge_map,      \* module global bridge_map: str(chat id) -> bridge
    telegram_users,  \* module global telegram_users: tg id -> entry
    slots,           \* insertion order of telegram_users (0: a deleted slot)
    users,           \* the local network: handle -> identity created on it,
                     \* with the departure signals it got (quits) and
                     \* whether telegram_users ever held it (stored)
    hooked,          \* the PRIVMSG hook is registered
    telegram_app,    \* irc.telegram_app is set
    host,            \* the host thread: setup, teardown
    bot,             \* the bot thread: start_telegram_bot, on_telegram_message
    reaper,          \* the cleanup thread: start_cleanup_timer.loop
    lastHook         \* the latest on_irc_privmsg call and its outbound sends

vars == <<cfg, remote, clock, bridge_map, telegram_users, slots, users, hooked,
          telegram_app, host, bot, reaper, lastHook>>

\* No on_irc_privmsg call yet. virtual is the handle of the virtual identity
\* that sent the message, 0 for a native user.
NoHook == [virtual |-> 0, ident |-> "", nick |-> "", target |-> "", message |-> "",
           sends |-> <<>>, error |-> ""]

\* The bot thread: its position, the update being handled (chat, from, text),
\* the locals of on_telegram_message (channel, user), and what the latest
\* call did: its outcome and its irc.send_privmsg calls (posts), each with
\* the chat of the update it relays.
BotIdle == [pc |-> "poll", chat |-> 0, from |-> 0, text |-> "", channel |-> "",
            user |-> 0, posts |-> <<>>, outcome |-> "none"]
ReaperOff == [pc |-> "off", now |-> 0, todo |-> <<>>, user |-> 0]
HostInit == [pc |-> "setup", size |-> 0, idx |-> 0]

InitWith(configs, profiles) ==
    /\ cfg \in configs
    /\ remote \in profiles
    /\ clock = 0
    /\ bridge_map = <<>>
    /\ telegram_users = <<>>
    /\ slots = <<>>
    /\ users = <<>>
    /\ hooked = FALSE
    /\ telegram_app = FALSE
    /\ host = HostInit
    /\ bot = [BotIdle EXCEPT !.pc = "off"]
    /\ reaper = ReaperOff
    /\ lastHook = NoHook

Init == InitWith(LiveConfigs, {PlainProfiles})

\* ------------------------------------------------------------- clock
Tick ==
    /\ clock < MaxTime
    /\ clock' = clock + 1
    /\ UNCHANGED <<cfg, remote, bridge_map, telegram_users, slots, users, hooked,
                   telegram_app, host, bot, reaper, lastHook>>

\* ------------------------------------------------------------- setup
RECURSIVE BuildFrom(_, _)
\* build_bridge_map: a later entry with the same str(chat_id) replaces the
\* earlier one.
BuildFrom(bridges, m) ==
    IF bridges = <<>> THEN m
    ELSE LET b == Head(bridges)
             k == Str(b.telegram.chat_id)
         IN BuildFrom(Tail(bridges),
                      [x \in DOMAIN m \cup {k} |-> IF x = k THEN b ELSE m[x]])

build_bridge_map(c) == BuildFrom(c.bridges, bridge_map)

\* setup, lines 41-47: the bridge map is built and the hook registered.
SetupHook ==
    /\ host.pc = "setup"
    /\ bridge_map' = build_bridge_map(cfg)
    /\ hooked' = TRUE
    /\ host' = [host EXCEPT !.pc = "setup_bot"]
    /\ UNCHANGED <<cfg, remote, clock, telegram_users, slots, users, telegram_app,
                   bot, reaper, lastHook>>

\* setup, lines 50-54: the bot thread is started.
SetupBotThread ==
    /\ host.pc = "setup_bot"
    /\ bot' = [bot EXCEPT !.pc = "start"]
    /\ host' = [host EXCEPT !.pc = "setup_cleanup"]
    /\ UNCHANGED <<cfg, remote, clock, bridge_map, telegram_users, slots, users, hooked,
                   telegram_app, reaper, lastHook>>

\* setup, lines 57-58, and start_cleanup_timer, line 197.
SetupCleanup ==
    /\ host.pc = "setup_cleanup"
    /\ reaper' = IF cfg.idle_timeout > 0 THEN [reaper EXCEPT !.pc = "sleep"]
                 ELSE reaper
    /\ host' = [host EXCEPT !.pc = "loaded"]
    /\ UNCHANGED <<cfg, remote, clock, bridge_map, telegram_users, slots, users, hooked,
                   telegram_app, bot, lastHook>>

\* start_telegram_bot, lines 214-225: the application is built, stored in
\* irc.telegram_app, and polling begins.
start_telegram_bot ==
    /\ bot.pc = "start"
    /\ telegram_app' = TRUE
    /\ bot' = [bot EXCEPT !.pc = "poll"]
    /\ UNCHANGED <<cfg, remote, clock, bridge_map, telegram_users, slots, users, hooked,
                   host, reaper, lastHook>>

\* ------------------------------------------------- local -> remote
\* A variant of line 106 that tests the ident against cfg["identity"]["host"].
IsRelaySourceByHost(ident) == ident = RelayHost

\* Line 106: the anti-loop test on the source's ident.
IsRelaySource(ident) == ident = RelayIdent

\* Line 111: the outbound text.
FormatOutbound(nick, message) == "<" \o nick \o "> " \o message

RECURSIVE SendsFor(_, _, _)
\* Lines 109-115: one send_message call per bridge entry whose channel is
\* the target, in the order of the list, to the entry's configured chat id.
SendsFor(bridges, target, text) ==
    IF bridges = <<>> THEN <<>>
    ELSE LET b == Head(bridges)
             rest == SendsFor(Tail(bridges), target, text)
         IN IF target = b.irc.channel
            THEN <<[chat_id |-> b.telegram.chat_id, text |-> text]>> \o rest
            ELSE rest

\* on_irc_privmsg, lines 102-115. Reading irc.telegram_app before
\* start_telegram_bot has set it raises AttributeError at the first
\* matching bridge.
on_irc_privmsg(virtual, ident, nick, target, message) ==
    /\ hooked
    /\ LET sends == SendsFor(cfg.bridges, target, FormatOutbound(nick, message))
           call == [virtual |-> virtual, ident |-> ident, nick |-> nick,
                    target |-> target, message |-> message, sends |-> <<>>,
                    error |-> ""]
       IN lastHook' =
            IF IsRelaySource(ident) THEN call
            ELSE IF sends # <<>> /\ ~telegram_app
                 THEN [call EXCEPT !.error = "AttributeError"]
                 ELSE [call EXCEPT !.sends = sends]
    /\ UNCHANGED <<cfg, remote, clock, bridge_map, telegram_users, slots, users, hooked,
                   telegram_app, host, bot, reaper>>

\* A message of a native user of the local network reaches the hook.
NativePrivmsg ==
    \E ident \in Idents, nick \in Nicks, target \in Channels, message \in Texts :
        on_irc_privmsg(0, ident, nick, target, message)

\* A message posted by a virtual identity reaches the hook with the ident
\* the identity was created with.
VirtualPrivmsg ==
    \E h \in DOMAIN users, target \in Channels, message \in Texts :
        /\ users[h].quits = 0
        /\ on_irc_privmsg(h, users[h].ident, users[h].nick, target, message)

\* ------------------------------------------------- remote -> local
\* The bot thread returns to polling; the update and the locals of the call
\* are dropped, what the call did is kept.
Return(outcome, posts) == [BotIdle EXCEPT !.posts = posts, !.outcome = outcome]

\* A variant of lines 73-81 without the test for text.
IgnoredUnbridged(chat, text) == Dec(chat) \notin DOMAIN bridge_map

\* Lines 73-74 and 79-81: the update has no text, or its chat is not a key
\* of bridge_map.
Ignored(chat, text) == text = "" \/ Dec(chat) \notin DOMAIN bridge_map

\* on_telegram_message, lines 72-84: an update without text or from a chat
\* that is not in bridge_map is ignored; otherwise the bridge's channel is
\* resolved and get_or_create_irc_user is entered.
on_telegram_message(chat, from, text) ==
    /\ bot.pc = "poll"
    /\ LET call == [BotIdle EXCEPT !.chat = chat, !.from = from, !.text = text]
       IN bot' =
            IF Ignored(chat, text)
            THEN Return("ignored", <<>>)
            ELSE [call EXCEPT !.pc = "goc_check",
                              !.channel = bridge_map[Dec(chat)].irc.channel,
                              !.outcome = "running"]
    /\ UNCHANGED <<cfg, remote, clock, bridge_map, telegram_users, slots, users, hooked,
                   telegram_app, host, reaper, lastHook>>

\* A variant of line 125 whose lookup never finds the key.
KnownNever(tg_id) == tg_id \in {}

\* Line 125: tg_id in telegram_users.
Known(tg_id) == tg_id \in DOMAIN telegram_users

\* get_or_create_irc_user, line 125.
GocCheck ==
    /\ bot.pc = "goc_check"
    /\ bot' = [bot EXCEPT !.pc = IF Known(bot.from) THEN "goc_read" ELSE "create"]
    /\ UNCHANGED <<cfg, remote, clock, bridge_map, telegram_users, slots, users, hooked,
                   telegram_app, host, reaper, lastHook>>

\* get_or_create_irc_user, line 126: the entry is read again; KeyError when
\* it was deleted since line 125.
GocRead ==
    /\ bot.pc = "goc_read"
    /\ bot' = IF bot.from \in DOMAIN telegram_users
              THEN [bot EXCEPT !.pc = "seen", !.user = telegram_users[bot.from].user]
              ELSE Return("KeyError", <<>>)
    /\ UNCHANGED <<cfg, remote, clock, bridge_map, telegram_users, slots, users, hooked,
                   telegram_app, host, reaper, lastHook>>

\* The channels of lines 139-140, one irc.join call per bridge entry.
JoinChannels(bridges) == [i \in 1..Len(bridges) |-> bridges[i].irc.channel]

\* The identity irc.create_user registers, lines 131-136, joined to the
\* first n channels of the bridge list.
\* ------------------------------------------------- naming
\* The characters of a string, as a set of one-character strings.
Chars(s) == {SubSeq(s, i, i) : i \in 1..Len(s)}

\* \s of line 175.
Whitespace == Chars(" \t\n\r\f")

\* The character class of line 177, un-negated: letters, digits and
\* _ - [ ] \ ^ { } (the class also has the backquote, which a string of
\* this notation cannot hold; no input drawn below contains one).
NickAlphabet ==
    Chars("ABCDEFGHIJKLMNOPQRSTUVWXYZabcdefghijklmnopqrstuvwxyz0123456789")
        \cup Chars("_-[]\\^{}")

RECURSIVE Remove(_, _)
\* re.sub(<class>, "", s): s without the characters of the set.
Remove(s, class) ==
    IF s = "" THEN ""
    ELSE (IF SubSeq(s, 1, 1) \in class THEN "" ELSE SubSeq(s, 1, 1))
            \o Remove(SubSeq(s, 2, Len(s)), class)

\* A variant of lines 175-177 that removes whitespace only.
SanitizeSpacesOnly(name) == Remove(name, Whitespace)

\* Lines 175-177 of sanitize_irc_name: whitespace is removed, then every
\* character outside the nickname alphabet.
Sanitize(name) ==
    Remove(Remove(name, Whitespace), Chars(name) \ NickAlphabet)

\* sanitize_irc_name, lines 172-178.
sanitize_irc_name(name) ==
    IF Sanitize(name) = "" THEN "TGUser" ELSE Sanitize(name)

\* s[:n] of Python: a negative n counts from the end.
Slice(s, n) ==
    IF n >= Len(s) THEN s
    ELSE IF n >= 0 THEN SubSeq(s, 1, n)
    ELSE IF Len(s) + n > 0 THEN SubSeq(s, 1, Len(s) + n) ELSE ""

\* A variant of line 163 that does not cut the nick.
Uncut(s, n) == s

\* Line 163: nick[:cfg["limits"]["nick_max"]].
Cut(s, n) == Slice(s, n)

\* build_nick_from_telegram, lines 155-158: the username, else the first and
\* last name, else "tg" and the id.
BaseOf(tg_user) ==
    IF tg_user.username # "" THEN tg_user.username
    ELSE IF tg_user.first_name \o tg_user.last_name # ""
         THEN tg_user.first_name \o tg_user.last_name
         ELSE "tg" \o Dec(tg_user.id)

\* build_nick_from_telegram, lines 151-163.
build_nick_from_telegram(tg_user, c) ==
    Cut(sanitize_irc_name(BaseOf(tg_user)) \o "/" \o c.suffix, c.nick_max)

\* A variant of line 89 that cuts one character early.
TruncateShort(text, c) == Slice(text, c.message_max - 1)

\* Line 89: msg.text[:cfg["limits"]["message_max"]].
Truncate(text, c) == Slice(text, c.message_max)

NewUser(tg_id, n) ==
    [tg |-> tg_id, ident |-> RelayIdent,
     nick |-> build_nick_from_telegram(remote[tg_id], cfg),
     joined |-> SubSeq(JoinChannels(cfg.bridges), 1, n), quits |-> 0,
     stored |-> FALSE]

\* get_or_create_irc_user, lines 128-140: irc.create_user returns a new
\* handle, which is joined to the channel of every bridge entry. The calls
\* touch only the new handle, which no other thread can reach before line
\* 142 stores it, so they are one step.
GocCreate ==
    /\ bot.pc = "create"
    /\ Len(users) < MaxHandles
    /\ users' = Append(users, NewUser(bot.from, Len(cfg.bridges)))
    /\ bot' = [bot EXCEPT !.pc = "store", !.user = Len(users) + 1]
    /\ UNCHANGED <<cfg, remote, clock, bridge_map, telegram_users, slots, hooked,
                   telegram_app, host, reaper, lastHook>>

\* telegram_users[tg_id] = value: a new key takes a new slot at the end.
SetItem(tg_id, value) ==
    [k \in DOMAIN telegram_users \cup {tg_id} |->
        IF k = tg_id THEN value ELSE telegram_users[k]]

\* get_or_create_irc_user, lines 142-148.
GocStore ==
    /\ bot.pc = "store"
    /\ telegram_users' = SetItem(bot.from, [user |-> bot.user, last_seen |-> clock])
    /\ slots' = IF bot.from \in DOMAIN telegram_users THEN slots
                 ELSE Append(slots, bot.from)
    /\ users' = [users EXCEPT ![bot.user].stored = TRUE]
    /\ bot' = [bot EXCEPT !.pc = "seen"]
    /\ UNCHANGED <<cfg, remote, clock, bridge_map, hooked, telegram_app, host,
                   reaper, lastHook>>

\* on_telegram_message, line 87: telegram_users[id]["last_seen"] = time.time();
\* KeyError when the entry was deleted since get_or_create_irc_user returned.
TouchLastSeen ==
    /\ bot.pc = "seen"
    /\ IF bot.from \in DOMAIN telegram_users
       THEN /\ telegram_users' = [telegram_users EXCEPT ![bot.from].last_seen = clock]
            /\ bot' = [bot EXCEPT !.pc = "post"]
       ELSE /\ bot' = Return("KeyError", <<>>)
            /\ UNCHANGED telegram_users
    /\ UNCHANGED <<cfg, remote, clock, bridge_map, slots, users, hooked, telegram_app,
                   host, reaper, lastHook>>

\* on_telegram_message, lines 89-95: irc.send_privmsg(channel, text, source=user).
Post ==
    /\ bot.pc = "post"
    /\ bot' = Return("posted", <<[chat |-> bot.chat, channel |-> bot.channel,
                                  original |-> bot.text,
                                  text |-> Truncate(bot.text, cfg),
                                  source |-> bot.user]>>)
    /\ UNCHANGED <<cfg, remote, clock, bridge_map, telegram_users, slots, users, hooked,
                   telegram_app, host, reaper, lastHook>>

Receive ==
    \E chat \in InboundChatIds, from \in Participants, text \in Texts \cup {""} :
        on_telegram_message(chat, from, text)

\* The exception of a failed registration leaves on_telegram_message; the
\* participant it failed for is kept with the outcome.
RegistrationError == [Return("RegistrationError", <<>>) EXCEPT !.from = bot.from]

\* get_or_create_irc_user, line 131: irc.create_user raises; nothing was
\* registered.
GocCreateFails ==
    /\ bot.pc = "create"
    /\ bot' = RegistrationError
    /\ UNCHANGED <<cfg, remote, clock, bridge_map, telegram_users, slots, users, hooked,
                   telegram_app, host, reaper, lastHook>>

\* get_or_create_irc_user, line 140: an irc.join call raises after the
\* handle was created and joined to the channels before it.
GocJoinFails ==
    /\ bot.pc = "create"
    /\ Len(users) < MaxHandles
    /\ \E n \in 0..(Len(cfg.bridges) - 1) :
          users' = Append(users, NewUser(bot.from, n))
    /\ bot' = RegistrationError
    /\ UNCHANGED <<cfg, remote, clock, bridge_map, telegram_users, slots, hooked,
                   telegram_app, host, reaper, lastHook>>

\* ------------------------------------------------------ idle cleanup
\* irc.quit(user, reason): one more departure signal for the handle.
Quit(user) == [users EXCEPT ![user].quits = @ + 1]

\* list(telegram_users): the keys in insertion order.
Keys == SelectSeq(slots, LAMBDA k : k # 0)

\* del telegram_users[tg_id]: the key's slot stays, emptied.
DelItem(tg_id) == [k \in DOMAIN telegram_users \ {tg_id} |-> telegram_users[k]]
DelSlot(tg_id) == [i \in 1..Len(slots) |-> IF slots[i] = tg_id THEN 0 ELSE slots[i]]

\* A variant of line 193 that also evicts at now - last_seen = timeout.
IsIdleAtTimeout(now, last_seen, timeout) == now - last_seen >= timeout

\* Line 193: the idle test.
IsIdle(now, last_seen, timeout) == now - last_seen > timeout

\* loop, lines 189-191: after the sleep, now is read and the keys are listed.
SweepStart ==
    /\ reaper.pc = "sleep"
    /\ reaper' = [reaper EXCEPT !.pc = "eval", !.now = clock, !.todo = Keys]
    /\ UNCHANGED <<cfg, remote, clock, bridge_map, telegram_users, slots, users, hooked,
                   telegram_app, host, bot, lastHook>>

\* loop, lines 191-193: the next key of the list is evaluated; the sweep
\* ends when the list is exhausted. KeyError ends the thread.
SweepEval ==
    /\ reaper.pc = "eval"
    /\ reaper' =
         IF reaper.todo = <<>> THEN [ReaperOff EXCEPT !.pc = "sleep"]
         ELSE LET tg_id == Head(reaper.todo) IN
              IF tg_id \notin DOMAIN telegram_users
              THEN [reaper EXCEPT !.pc = "dead"]
              ELSE IF IsIdle(reaper.now, telegram_users[tg_id].last_seen,
                             cfg.idle_timeout)
                   THEN [reaper EXCEPT !.pc = "quit",
                                       !.user = telegram_users[tg_id].user]
                   ELSE [reaper EXCEPT !.todo = Tail(@)]
    /\ UNCHANGED <<cfg, remote, clock, bridge_map, telegram_users, slots, users, hooked,
                   telegram_app, host, bot, lastHook>>

\* loop, line 194: irc.quit(entry["user"], "Telegram idle timeout").
SweepQuit ==
    /\ reaper.pc = "quit"
    /\ users' = Quit(reaper.user)
    /\ reaper' = [reaper EXCEPT !.pc = "del"]
    /\ UNCHANGED <<cfg, remote, clock, bridge_map, telegram_users, slots, hooked,
                   telegram_app, host, bot, lastHook>>

\* loop, line 194: irc.quit raises; the exception leaves loop and the
\* thread ends with the rest of the list not evaluated.
SweepQuitFails ==
    /\ reaper.pc = "quit"
    /\ reaper' = [reaper EXCEPT !.pc = "dead"]
    /\ UNCHANGED <<cfg, remote, clock, bridge_map, telegram_users, slots, users, hooked,
                   telegram_app, host, bot, lastHook>>

\* loop, line 195: del telegram_users[tg_id]. KeyError ends the thread.
SweepDel ==
    /\ reaper.pc = "del"
    /\ LET tg_id == Head(reaper.todo) IN
       IF tg_id \in DOMAIN telegram_users
       THEN /\ telegram_users' = DelItem(tg_id)
            /\ slots' = DelSlot(tg_id)
            /\ reaper' = [reaper EXCEPT !.pc = "eval", !.todo = Tail(@), !.user = 0]
       ELSE /\ reaper' = [reaper EXCEPT !.pc = "dead"]
            /\ UNCHANGED <<telegram_users, slots>>
    /\ UNCHANGED <<cfg, remote, clock, bridge_map, users, hooked, telegram_app, host,
                   bot, lastHook>>

\* ---------------------------------------------------------- teardown
\* teardown, lines 62-63: the iterator over telegram_users.values() is
\* created; it remembers the size of the dict.
TeardownStart ==
    /\ host.pc = "loaded"
    /\ host' = [pc |-> "teardown", size |-> Cardinality(DOMAIN telegram_users),
                idx |-> 0]
    /\ UNCHANGED <<cfg, remote, clock, bridge_map, telegram_users, slots, users, hooked,
                   telegram_app, bot, reaper, lastHook>>

\* The slots the iterator has not passed yet that hold an entry.
SlotsAfter(idx) == {i \in (idx + 1)..Len(slots) : slots[i] # 0}

Min(S) == CHOOSE x \in S : \A y \in S : x <= y

\* teardown, lines 63-64: the iterator's next value, RuntimeError
\* ("dictionary changed size during iteration") when the size of the dict
\* is no longer the remembered one, then irc.quit on the entry's user.
TeardownNext ==
    /\ host.pc = "teardown"
    /\ IF Cardinality(DOMAIN telegram_users) # host.size
       THEN /\ host' = [HostInit EXCEPT !.pc = "teardown_error"]
            /\ UNCHANGED users
       ELSE IF SlotsAfter(host.idx) = {}
       THEN /\ host' = [HostInit EXCEPT !.pc = "unloaded"]
            /\ UNCHANGED users
       ELSE LET i == Min(SlotsAfter(host.idx)) IN
            /\ users' = Quit(telegram_users[slots[i]].user)
            /\ host' = [host EXCEPT !.idx = i]
    /\ UNCHANGED <<cfg, remote, clock, bridge_map, telegram_users, slots, hooked,
                   telegram_app, bot, reaper, lastHook>>

\* ------------------------------------------------------------- claims
HandlesOf(p) == {h \in DOMAIN users : users[h].tg = p}
Bridged(channel) == \E i \in 1..Len(cfg.bridges) : cfg.bridges[i].irc.channel = channel

\* C1, as stated: irc.create_user is invoked exactly once for a participant
\* id, so that every get_or_create_irc_user call for it returns the same
\* handle, under every interleaving with the idle reaper.
C1_CreatedOnce == \A p \in Participants : Cardinality(HandlesOf(p)) <= 1

\* C1, amended: irc.create_user is invoked for a participant id only while
\* telegram_users holds no entry for it (once per entry, again after the
\* reaper deleted the entry); a get_or_create_irc_user call that returned
\* holds the handle of the entry for as long as the entry exists; and no
\* two handles that were stored for one participant id are both without a
\* departure signal.
C1_OncePerEntry ==
    /\ bot.pc = "store" => bot.from \notin DOMAIN telegram_users
    /\ (bot.pc \in {"seen", "post"} /\ bot.from \in DOMAIN telegram_users)
          => telegram_users[bot.from].user = bot.user
    /\ \A p \in Participants :
          Cardinality({h \in HandlesOf(p) :
                          users[h].stored /\ users[h].quits = 0}) <= 1

\* C1, witness: a participant whose entry was evicted has been given a
\* second handle, stored in the table, and a message of theirs was posted.
C1_Recreated ==
    \E p \in DOMAIN telegram_users :
        /\ Cardinality(HandlesOf(p)) = 2
        /\ users[telegram_users[p].user].quits = 0
        /\ bot.outcome = "posted"

\* C2: a local message whose source ident is the relay ident, and so every
\* message sent by a virtual identity, produces no outbound send.
C2_AntiLoop ==
    /\ lastHook.ident = RelayIdent => lastHook.sends = <<>>
    /\ lastHook.virtual # 0 => lastHook.sends = <<>>

\* C2, witness: a virtual identity's message in a bridged channel reached
\* the hook while the remote client was ready to send.
C2_VirtualFiltered ==
    /\ lastHook.virtual # 0
    /\ lastHook.ident = RelayIdent
    /\ Bridged(lastHook.target)
    /\ telegram_app
    /\ lastHook.sends = <<>>

\* The chats, as str(chat_id), that the bridge list bridges to a channel.
ChatsBridgedTo(channel) ==
    {Str(cfg.bridges[i].telegram.chat_id) :
        i \in {j \in 1..Len(cfg.bridges) : cfg.bridges[j].irc.channel = channel}}

\* C3: a local message in channel C from a non-relay ident results in
\* exactly one outbound send, of "<nick> text", per distinct remote chat
\* bridged to C, and in no send to a chat that is not bridged to C.
C3_FanOut ==
    lastHook.ident = NativeIdent =>
        LET sends == lastHook.sends
            text == "<" \o lastHook.nick \o "> " \o lastHook.message
        IN /\ \A x \in ChatsBridgedTo(lastHook.target) :
                Cardinality({k \in 1..Len(sends) :
                                Str(sends[k].chat_id) = x /\ sends[k].text = text}) = 1
           /\ \A k \in 1..Len(sends) :
                Str(sends[k].chat_id) \in ChatsBridgedTo(lastHook.target)

\* The (chat, channel) pairs of the bridge list and of the inbound index.
PairsOfList ==
    {<<Str(cfg.bridges[i].telegram.chat_id), cfg.bridges[i].irc.channel>> :
        i \in 1..Len(cfg.bridges)}
PairsOfMap == {<<k, bridge_map[k].irc.channel>> : k \in DOMAIN bridge_map}

\* C4: once build_bridge_map has run, bridge_map and the bridge list hold
\* the same (chat, channel) pairs, and a relayed inbound message of chat X
\* was posted exactly once to the channel of every bridge entry for X.
C4_InboundRouting ==
    /\ host.pc # "setup" => PairsOfMap = PairsOfList
    /\ bot.outcome = "posted" =>
          \A i \in 1..Len(cfg.bridges) :
              Str(cfg.bridges[i].telegram.chat_id) = Dec(bot.posts[1].chat) =>
                  Cardinality({k \in 1..Len(bot.posts) :
                      bot.posts[k].channel = cfg.bridges[i].irc.channel}) = 1

\* C5: on_telegram_message never fails on a missing table entry, under
\* every interleaving with a sweep.
C5_NoKeyError == bot.outcome # "KeyError"

\* C6: a sweep step that evaluates an entry with now - last_seen strictly
\* greater than idle_timeout goes on to send its handle a departure signal
\* and to delete the entry; one that evaluates an entry with now - last_seen
\* less than or equal to idle_timeout leaves the table and every identity
\* as they are and moves to the next entry.
C6_Threshold ==
    [][(reaper' # reaper) =>
         LET tg_id == Head(reaper.todo) IN
         /\ (reaper.pc = "eval" /\ reaper.todo # <<>>) =>
               IF reaper.now - telegram_users[tg_id].last_seen > cfg.idle_timeout
               THEN /\ reaper'.pc = "quit"
                    /\ reaper'.user = telegram_users[tg_id].user
                    /\ reaper'.todo = reaper.todo
               ELSE /\ reaper'.pc = "eval"
                    /\ reaper'.todo = Tail(reaper.todo)
                    /\ UNCHANGED <<telegram_users, users>>
         /\ reaper.pc = "quit" =>
               /\ users'[reaper.user].quits = users[reaper.user].quits + 1
               /\ reaper'.pc = "del"
               /\ reaper'.todo = reaper.todo
         /\ reaper.pc = "del" =>
               /\ tg_id \notin DOMAIN telegram_users'
               /\ reaper'.pc = "eval"
      ]_vars

\* C6, witness: a sweep has evaluated its whole list; it evicted one
\* identity and retained one whose now - last_seen equals idle_timeout.
C6_BoundaryRetained ==
    /\ reaper.pc = "eval"
    /\ reaper.todo = <<>>
    /\ \E p \in DOMAIN telegram_users :
          reaper.now - telegram_users[p].last_seen = cfg.idle_timeout
    /\ \E h \in DOMAIN users :
          /\ users[h].quits = 1
          /\ users[h].tg \notin DOMAIN telegram_users

\* C7: when teardown completes, every identity registered on the local
\* network has received exactly one departure signal; no identity gets a
\* second one and the scan of the table does not fail.
C7_TeardownDepartsAll ==
    /\ host.pc # "teardown_error"
    /\ \A h \in DOMAIN users : users[h].quits <= 1
    /\ host.pc = "unloaded" => \A h \in DOMAIN users : users[h].quits = 1

\* C8: after teardown has run, the reaper takes no further step, no
\* update is handled, no identity is created and no local post is made.
C8_WorkersStopped ==
    [][host.pc = "unloaded" => UNCHANGED <<reaper, bot, users, telegram_users>>]_vars

\* C9: a failed departure call does not end the cleanup loop: the other
\* identities of the sweep are still evaluated and later sweeps run.
C9_ReaperSurvives == reaper.pc # "dead"

\* C10: after a failed registration of a previously unseen participant no
\* table entry is stored for it, no post is made, and every identity on the
\* local network without a departure signal is the handle of a table entry
\* (none is half-registered outside the table).
C10_CleanFailure ==
    bot.outcome = "RegistrationError" =>
        /\ bot.from \notin DOMAIN telegram_users
        /\ bot.posts = <<>>
        /\ \A h \in DOMAIN users :
              users[h].quits = 0 =>
                  \E p \in DOMAIN telegram_users : telegram_users[p].user = h

\* The nick of a handle before line 163 cuts it.
FullNick(h) ==
    sanitize_irc_name(BaseOf(remote[users[h].tg])) \o "/" \o cfg.suffix

\* C11: when the sanitized base followed by "/" and the suffix is longer
\* than limits.nick_max the nick is exactly its first nick_max characters,
\* otherwise it is that string unchanged; the nick is never longer than
\* nick_max.
C11_NickTruncation ==
    \A h \in DOMAIN users :
        /\ Len(users[h].nick) <= cfg.nick_max
        /\ Len(FullNick(h)) > cfg.nick_max =>
              users[h].nick = SubSeq(FullNick(h), 1, cfg.nick_max)
        /\ Len(FullNick(h)) <= cfg.nick_max => users[h].nick = FullNick(h)

\* A nick was cut: its uncut form is longer than nick_max.
C11_Cut ==
    \E h \in DOMAIN users :
        /\ Len(FullNick(h)) > cfg.nick_max
        /\ Len(users[h].nick) = cfg.nick_max

\* The base of an uncut nick: what precedes "/" and the suffix.
BasePart(nick) == SubSeq(nick, 1, Len(nick) - Len(cfg.suffix) - 1)

\* The handles whose nick is shorter than nick_max, hence uncut.
UncutHandles == {h \in DOMAIN users : Len(users[h].nick) < cfg.nick_max}

\* No character of the name is a nickname character.
AllDisallowed(name) == name # "" /\ Chars(name) \cap NickAlphabet = {}

\* C12: for every profile the base before the suffix is non-empty and has
\* nickname characters only; it is "TGUser" when the chosen name (the
\* username, else first and last name) sanitizes to the empty string, and
\* "tg" followed by the id when the profile has no username and no names.
C12_BaseFallback ==
    \A h \in UncutHandles :
        LET p == remote[users[h].tg]
            base == BasePart(users[h].nick)
        IN /\ users[h].nick = base \o "/" \o cfg.suffix
           /\ base # ""
           /\ Chars(base) \subseteq NickAlphabet
           /\ AllDisallowed(p.username) => base = "TGUser"
           /\ (p.username = "" /\ AllDisallowed(p.first_name \o p.last_name))
                 => base = "TGUser"
           /\ (p.username = "" /\ p.first_name = "" /\ p.last_name = "")
                 => base = "tg" \o Dec(p.id)

\* Both fallbacks were taken: one identity is named "TGUser" for a username
\* of disallowed characters, another "tg" and the id for an empty profile.
C12_Fallbacks ==
    \E h, g \in UncutHandles :
        /\ AllDisallowed(remote[users[h].tg].username)
        /\ BasePart(users[h].nick) = "TGUser"
        /\ remote[users[g].tg].username = ""
        /\ remote[users[g].tg].first_name \o remote[users[g].tg].last_name = ""
        /\ BasePart(users[g].nick) = "tg" \o Dec(users[g].tg)

\* C13: the text posted is the first limits.message_max characters of the
\* original text when that is longer, and the original text otherwise.
C13_TextTruncation ==
    \A k \in 1..Len(bot.posts) :
        LET post == bot.posts[k]
        IN post.text = IF Len(post.original) > cfg.message_max
                       THEN SubSeq(post.original, 1, cfg.message_max)
                       ELSE post.original

\* A text longer than message_max was posted cut to message_max characters.
C13_Cut ==
    \E k \in 1..Len(bot.posts) :
        /\ Len(bot.posts[k].original) > cfg.message_max
        /\ Len(bot.posts[k].text) = cfg.message_max

\* C18: two distinct participants that are both in the table have different
\* nicks.
C18_DistinctNicks ==
    \A p, q \in DOMAIN telegram_users :
        p # q => users[telegram_users[p].user].nick
                    # users[telegram_users[q].user].nick

\* C14: every post of on_telegram_message is authored by a handle that has
\* no departure signal at the moment of the post: irc.send_privmsg is never
\* called with a source for which irc.quit was already called.
C14_PostBySignedOn ==
    [][(bot.pc = "post" /\ bot'.outcome = "posted") =>
          users[bot.user].quits = 0]_vars

\* C15: the cleanup thread calls irc.quit for a participant only if, at the
\* moment of the call, the participant's last_seen (set by line 87 on every
\* relayed message) is more than idle_timeout old.
C15_ReapsOnlyIdle ==
    [][(reaper.pc = "quit" /\ reaper'.pc = "del") =>
          /\ Head(reaper.todo) \in DOMAIN telegram_users
          /\ clock - telegram_users[Head(reaper.todo)].last_seen
                > cfg.idle_timeout]_vars

\* How often the handle was joined to the channel.
JoinCount(h, channel) ==
    Cardinality({k \in 1..Len(users[h].joined) : users[h].joined[k] = channel})

\* C16: an identity is joined exactly once to every channel that some
\* bridge names (also when several bridge entries name the same channel)
\* and to no other channel, from its creation on: before its entry is
\* stored, before its first post, and never again afterwards.
C16_JoinedOncePerChannel ==
    \A h \in DOMAIN users : \A channel \in Channels :
        JoinCount(h, channel) = IF Bridged(channel) THEN 1 ELSE 0

\* The program points of on_telegram_message after line 84.
InCall == {"goc_check", "goc_read", "create", "store", "seen", "post"}

\* C17: an update without text, or of a chat without a bridge mapping, never
\* gets past line 81 (so it reaches neither get_or_create_irc_user nor line
\* 87 nor the post), and the handler step that ignores an update makes no
\* post and leaves the identity table, every last_seen included, and the
\* registered identities unchanged.
C17_IgnoredChangesNothing ==
    [][/\ bot'.pc \in InCall =>
             bot'.text # "" /\ Dec(bot'.chat) \in DOMAIN bridge_map'
       /\ (bot.pc = "poll" /\ bot'.pc = "poll" /\ bot' # bot) =>
             /\ bot'.outcome = "ignored"
             /\ bot'.posts = <<>>
             /\ UNCHANGED <<telegram_users, slots, users>>]_vars

\* An update was ignored while the table held an identity.
C17_IgnoredWithTable ==
    /\ bot.pc = "poll"
    /\ bot.outcome = "ignored"
    /\ telegram_users # <<>>

\* No handler call, sweep or teardown is in progress.
Quiescent ==
    /\ bot.pc \notin InCall
    /\ reaper.pc \notin {"eval", "quit", "del"}
    /\ host.pc # "teardown"

\* C19: whenever no handler, sweep or teardown is mid-execution the table
\* holds exactly the identities that are registered and have no departure
\* signal; after teardown the table is empty.
C19_TableIsLive ==
    Quiescent =>
        /\ {telegram_users[p].user : p \in DOMAIN telegram_users}
              = {h \in DOMAIN users : users[h].quits = 0}
        /\ host.pc = "unloaded" => DOMAIN telegram_users = {}

\* C20: whenever on_irc_privmsg attempts an outbound send, irc.telegram_app
\* has been set: no send is attempted on a client that does not exist yet.
C20_ClientReady ==
    (lastHook.ident # RelayIdent /\ Bridged(lastHook.target)) =>
        lastHook.error = ""

\* ----------------------------------------------------- specifications
Setup == SetupHook \/ SetupBotThread \/ SetupCleanup

Handler == Receive \/ GocCheck \/ GocRead \/ GocCreate \/ GocStore
           \/ TouchLastSeen \/ Post

Sweep == SweepStart \/ SweepEval \/ SweepQuit \/ SweepDel

Teardown == TeardownStart \/ TeardownNext

\* The identity table and the threads that use it. on_irc_privmsg reads
\* only cfg and irc.telegram_app and writes nothing the other threads read;
\* it is part of NextRoute.
Next ==
    \/ Tick
    \/ Setup
    \/ start_telegram_bot
    \/ Handler
    \/ Sweep
    \/ Teardown

Spec == Init /\ [][Next]_vars

\* The two relay directions for every bridge list, with idle cleanup off:
\* no cleanup thread runs, and nothing on the relay paths reads the clock
\* values that line 87 and line 144 store.
InitRoute == InitWith(RouteConfigs, {PlainProfiles})

NextRoute ==
    \/ Setup
    \/ start_telegram_bot
    \/ NativePrivmsg
    \/ VirtualPrivmsg
    \/ Handler

SpecRoute == InitRoute /\ [][NextRoute]_vars

\* The remote-to-local direction for every profile and every nick_max, and
\* for every message_max; idle cleanup off.
InitInbound ==
    \/ InitWith(NickConfigs, AllProfiles)
    \/ InitWith(TextConfigs, {PlainProfiles})

NextInbound ==
    \/ Setup
    \/ start_telegram_bot
    \/ Handler

SpecInbound == InitInbound /\ [][NextInbound]_vars

\* The identity table when calls into the local network may raise.
Failures == GocCreateFails \/ GocJoinFails \/ SweepQuitFails

NextFail == Next \/ Failures

SpecFail == Init /\ [][NextFail]_vars
====
